---- MODULE Spec2Model ----
(***************************************************************************)
(* funkyd: the query pipeline of MutexServer (src/mutex_server.go) with    *)
(* the helpers of src/server.go, over a connection pool and two record     *)
(* caches.  The ConnPool and RecordCache implementations are not among the *)
(* sources; their operations are modelled from their contracts.            *)
(*                                                                         *)
(* A request carries exactly one question (HandleDNS reads Question[0]).   *)
(***************************************************************************)
EXTENDS Integers, Sequences, FiniteSets, TLC

\* ------------------------------------------------------------------ bounds
\* queries that arrive during one run
NumQueries == 2
\* largest configured upstream_retries
MaxRetries == 1
\* the clock stops advancing here
MaxTime == 1
\* runtime.GOMAXPROCS(0) of the host
GoMaxProcs == 2

\* ------------------------------------------------------- program constants
RcodeSuccess == 0
RcodeServerFailure == 2
RcodeNameError == 3
DefaultMaxConnsPerHost == 3

Queries == 1..NumQueries
\* &ConnEntry{}: no connection entry
None == 0

\* DNS names differ in letter case only where the model needs it.
ToLower(name) == IF name = "A." THEN "a." ELSE name

\* The requests a client may send: id, question name, question type.
Requests ==
    { [id |-> 11, name |-> "a.", qtype |-> 1],
      [id |-> 12, name |-> "A.", qtype |-> 1],
      [id |-> 13, name |-> "b.", qtype |-> 28] }

NoRequest == [id |-> 0, name |-> "", qtype |-> 0]

\* What an upstream may answer and how long the exchange took: rcode, flags,
\* the TTLs of the answer RRs, and the round-trip time.
UpstreamReplies ==
    { [rcode |-> RcodeSuccess, ra |-> TRUE, aa |-> FALSE, answers |-> <<2, 1>>,
       rtt |-> 1],
      [rcode |-> RcodeNameError, ra |-> TRUE, aa |-> TRUE, answers |-> <<>>,
       rtt |-> 2] }

\* The round-trip time a failed exchange reports.
FailRtts == {0}

\* The configurations the server may be started with.
Configurations ==
    { [UpstreamRetries |-> MaxRetries, ConcurrentQueries |-> 0,
       MaxConnsPerHost |-> 1, Upstreams |-> <<"u1", "u2">>, ZoneFiles |-> TRUE],
      [UpstreamRetries |-> 0, ConcurrentQueries |-> 1,
       MaxConnsPerHost |-> 0, Upstreams |-> <<"u1">>, ZoneFiles |-> FALSE],
      [UpstreamRetries |-> MaxRetries, ConcurrentQueries |-> 0,
       MaxConnsPerHost |-> 0, Upstreams |-> <<>>, ZoneFiles |-> FALSE] }

\* dns.Msg: the fields the pipeline reads or writes.
NoMsg == [id |-> 0, qname |-> "", qtype |-> 0, rcode |-> 0,
          ra |-> FALSE, aa |-> FALSE, answers |-> <<>>]

\* Response{}: the zero value.
NoResponse == [key |-> "", qtype |-> 0, entry |-> NoMsg, ctime |-> 0, ttl |-> 0]

VARIABLES
    config,       \* GetConfiguration(): fixed after start
    now,          \* time.Now()
    pc,           \* pc[q]: where query q is in HandleDNS and its worker
    req,          \* req[q]: the request r of query q
    sem,          \* permits of s.sem that are held
    attempt,      \* attempt[q]: attemptExchange calls made by RecursiveQuery
    held,         \* held[q]: the ConnEntry the worker of q holds (ce)
    target,       \* target[q]: the upstream pool.Get told q to dial
    upreply,      \* upreply[q]: the upstream's reply r of the last exchange
    response,     \* response[q]: the Response RetrieveRecords returns
    source,       \* source[q]: the source RetrieveRecords returns
    Cache,        \* s.Cache: the lookup cache
    HostedCache,  \* s.HostedCache
    upstreams,    \* connPool: the registered upstreams, in insertion order
    poolCache,    \* connPool: address -> idle ConnEntries
    conns,        \* every ConnEntry ever dialed, by id
    written,      \* written[q]: the messages written to q's ResponseWriter
    logged,       \* logged[q]: the query-log records of q
    metrics,      \* the Prometheus counters and gauges
    trace         \* trace[q]: the steps of q so far, in order

vars == <<config, now, pc, req, sem, attempt, held, target, upreply, response,
          source, Cache, HostedCache, upstreams, poolCache, conns, written,
          logged, metrics, trace>>

\* ------------------------------------------------------------- Upstream
\* Upstream.GetAddress: name:853.
GetAddress(name) ==
    CASE name = "u1" -> "u1:853"
      [] name = "u2" -> "u2:853"
      [] OTHER -> ""

Addresses == {"u1:853", "u2:853"}

NoUpstream == [name |-> "", address |-> "", weight |-> 0, errors |-> 0]

NewUpstream(name) ==
    [name |-> name, address |-> GetAddress(name), weight |-> 0, errors |-> 0]

\* ------------------------------------------------------------ ConnEntry
NewConnEntry(address) ==
    [address |-> address, open |-> TRUE, exchanges |-> 0, errors |-> 0, totalRtt |-> 0]

AddExchange(ce, rtt) ==
    [ce EXCEPT !.exchanges = @ + 1, !.totalRtt = @ + rtt]

AddError(ce) == [ce EXCEPT !.errors = @ + 1]

MeanRtt(ce) == ce.totalRtt \div (IF ce.exchanges > 1 THEN ce.exchanges ELSE 1)

\* ------------------------------------------------------------- ConnPool
MaxPerHost ==
    IF config.MaxConnsPerHost = 0 THEN DefaultMaxConnsPerHost
    ELSE config.MaxConnsPerHost

UpstreamIndex(address) ==
    IF \E i \in 1..Len(upstreams) : upstreams[i].address = address
    THEN CHOOSE i \in 1..Len(upstreams) : upstreams[i].address = address
    ELSE 0

\* u is preferred to v: lower weight, then fewer errors, then inserted first.
Preferred(i, j) ==
    \/ upstreams[i].weight < upstreams[j].weight
    \/ /\ upstreams[i].weight = upstreams[j].weight
       /\ upstreams[i].errors < upstreams[j].errors
    \/ /\ upstreams[i].weight = upstreams[j].weight
       /\ upstreams[i].errors = upstreams[j].errors
       /\ i <= j

Best(S) == CHOOSE i \in S : \A j \in S : Preferred(i, j)

NonEmptyBuckets == {i \in 1..Len(upstreams) : poolCache[upstreams[i].address] # <<>>}

\* PoolGet that on a miss hands out the first upstream of the list, whatever
\* its weight and errors.
PoolGetFirstUpstream ==
    IF upstreams = <<>>
    THEN [err |-> "NoUpstreams", ce |-> None, upstream |-> NoUpstream, cache |-> poolCache]
    ELSE IF NonEmptyBuckets # {}
    THEN LET a == upstreams[Best(NonEmptyBuckets)].address
             bucket == poolCache[a]
         IN [err |-> "", ce |-> bucket[Len(bucket)], upstream |-> NoUpstream,
             cache |-> [poolCache EXCEPT ![a] = SubSeq(bucket, 1, Len(bucket) - 1)]]
    ELSE [err |-> "", ce |-> None, upstream |-> upstreams[1], cache |-> poolCache]

\* PoolGet that on a hit takes the oldest entry of the bucket (FIFO).
PoolGetOldest ==
    IF upstreams = <<>>
    THEN [err |-> "NoUpstreams", ce |-> None, upstream |-> NoUpstream, cache |-> poolCache]
    ELSE IF NonEmptyBuckets # {}
    THEN LET a == upstreams[Best(NonEmptyBuckets)].address
             bucket == poolCache[a]
         IN [err |-> "", ce |-> bucket[1], upstream |-> NoUpstream,
             cache |-> [poolCache EXCEPT ![a] = Tail(bucket)]]
    ELSE [err |-> "", ce |-> None, upstream |-> upstreams[Best(1..Len(upstreams))],
          cache |-> poolCache]

\* ConnPool.Get: (ce, upstream, err) and the bucket the entry was taken from.
PoolGet ==
    IF upstreams = <<>>
    THEN [err |-> "NoUpstreams", ce |-> None, upstream |-> NoUpstream, cache |-> poolCache]
    ELSE IF NonEmptyBuckets # {}
    THEN LET a == upstreams[Best(NonEmptyBuckets)].address
             bucket == poolCache[a]
         IN [err |-> "", ce |-> bucket[Len(bucket)], upstream |-> NoUpstream,
             cache |-> [poolCache EXCEPT ![a] = SubSeq(bucket, 1, Len(bucket) - 1)]]
    ELSE [err |-> "", ce |-> None, upstream |-> upstreams[Best(1..Len(upstreams))],
          cache |-> poolCache]

\* PoolAdd that never finds the bucket full.
PoolAddUnbounded(ce) ==
    LET a == conns[ce].address
        i == UpstreamIndex(a)
    IN IF i = 0
       THEN [err |-> "UnknownUpstream", cache |-> poolCache, upstreams |-> upstreams]
       ELSE [err |-> "",
             cache |-> [poolCache EXCEPT ![a] = Append(@, ce)],
             upstreams |-> [upstreams EXCEPT ![i].weight = MeanRtt(conns[ce])]]

\* PoolAdd that makes room in a full bucket by evicting its oldest entry.
PoolAddEvicting(ce) ==
    LET a == conns[ce].address
        i == UpstreamIndex(a)
    IN IF i = 0
       THEN [err |-> "UnknownUpstream", cache |-> poolCache, upstreams |-> upstreams]
       ELSE IF Len(poolCache[a]) >= MaxPerHost
       THEN [err |-> "",
             cache |-> [poolCache EXCEPT ![a] = Append(Tail(@), ce)],
             upstreams |-> [upstreams EXCEPT ![i].weight = MeanRtt(conns[ce])]]
       ELSE [err |-> "",
             cache |-> [poolCache EXCEPT ![a] = Append(@, ce)],
             upstreams |-> [upstreams EXCEPT ![i].weight = MeanRtt(conns[ce])]]

\* ConnPool.Add: the error it returns and the pool after it.
PoolAdd(ce) ==
    LET a == conns[ce].address
        i == UpstreamIndex(a)
    IN IF i = 0
       THEN [err |-> "UnknownUpstream", cache |-> poolCache, upstreams |-> upstreams]
       ELSE IF Len(poolCache[a]) >= MaxPerHost
       THEN [err |-> "PoolFull", cache |-> poolCache, upstreams |-> upstreams]
       ELSE [err |-> "",
             cache |-> [poolCache EXCEPT ![a] = Append(@, ce)],
             upstreams |-> [upstreams EXCEPT ![i].weight = MeanRtt(conns[ce])]]

\* ConnPool.CloseConnection: the upstream list after the error is counted.
PoolCloseUpstreams(address) ==
    LET i == UpstreamIndex(address)
    IN IF i = 0 THEN upstreams ELSE [upstreams EXCEPT ![i].errors = @ + 1]

\* ---------------------------------------------------------- RecordCache
Keys == {<<"a.", 1>>, <<"A.", 1>>, <<"b.", 28>>}

MinTtl(answers) ==
    IF answers = <<>> THEN 0
    ELSE CHOOSE t \in {answers[i] : i \in 1..Len(answers)} :
            \A i \in 1..Len(answers) : t <= answers[i]

\* CacheGet that returns whatever is resident, expired or not.
CacheGetResident(cache, domain, rrtype) ==
    LET k == <<ToLower(domain), rrtype>>
    IN IF k \in Keys /\ cache[k] # NoResponse
       THEN [ok |-> TRUE, response |-> cache[k]]
       ELSE [ok |-> FALSE, response |-> NoResponse]

\* RecordCache.Get(domain, rrtype): (Response, ok)
CacheGet(cache, domain, rrtype) ==
    LET k == <<ToLower(domain), rrtype>>
    IN IF k \in Keys /\ cache[k] # NoResponse /\ now < cache[k].ctime + cache[k].ttl
       THEN [ok |-> TRUE, response |-> cache[k]]
       ELSE [ok |-> FALSE, response |-> NoResponse]

\* RecordCache.Add(response)
CacheAdd(cache, resp) ==
    [cache EXCEPT ![<<resp.key, resp.qtype>>] =
        [resp EXCEPT !.ttl = MinTtl(resp.entry.answers)]]

\* CacheSweep that keeps an entry at the very instant of its expiry.
CacheSweepLate(cache) ==
    [k \in Keys |->
        IF cache[k] # NoResponse /\ now > cache[k].ctime + cache[k].ttl
        THEN NoResponse ELSE cache[k]]

\* The reaper's sweep: entries whose expiry has passed are removed.
CacheSweep(cache) ==
    [k \in Keys |->
        IF cache[k] # NoResponse /\ now >= cache[k].ctime + cache[k].ttl
        THEN NoResponse ELSE cache[k]]

EmptyCache == [k \in Keys |-> NoResponse]

\* ParseZoneFile: one Response per RR of the zone file.
ZoneResponse ==
    [key |-> "b.", qtype |-> 28,
     entry |-> [NoMsg EXCEPT !.answers = <<1>>],
     ctime |-> 0, ttl |-> 1]

\* ------------------------------------------------------------- dns.Msg
\* Msg.SetRcode(request, rcode): SetReply copies the id and the question of
\* the request; the flags ra and aa and the answers stay as they were.
SetRcode(m, request, rcode) ==
    [m EXCEPT !.id = request.id, !.qname = request.name,
              !.qtype = request.qtype, !.rcode = rcode]

\* The reply of an upstream to the question (domain, rrtype) of msg m.
UpstreamMsg(rep, domain, rrtype) ==
    [id |-> 0, qname |-> domain, qtype |-> rrtype, rcode |-> rep.rcode,
     ra |-> rep.ra, aa |-> rep.aa, answers |-> rep.answers]

\* ------------------------------------------------------------ server.go
processResults(r, domain, rrtype) ==
    [entry |-> r, ctime |-> now, key |-> domain, qtype |-> rrtype, ttl |-> 0]

\* logQuery: one record per (question, answer) pair of the response.
logQuery(src, m) ==
    [j \in 1..Len(m.answers) |->
        [name |-> m.qname, type |-> m.qtype, answer |-> m.answers[j],
         answerSource |-> src]]

\* The message of the older sendNXDomain (server.go 482-487).
NxdomainMsg(r) == SetRcode(NoMsg, r, RcodeNameError)

\* The message sendServfail writes for request r.
ServfailMsg(r) == SetRcode(NoMsg, r, RcodeServerFailure)

\* ------------------------------------------------------ NewMutexServer
\* The capacity of the worker semaphore.
Capacity ==
    IF config.ConcurrentQueries = 0 THEN GoMaxProcs ELSE config.ConcurrentQueries

InitMetrics ==
    [total |-> 0, queued |-> 0, cacheHits |-> 0, hostedCacheHits |-> 0,
     recursiveQueries |-> 0, localServfails |-> 0,
     upstreamErrors |-> [a \in Addresses |-> 0],
     reusedConnections |-> [a \in Addresses |-> 0],
     newConnectionAttempts |-> [a \in Addresses |-> 0]]

Init ==
    /\ config \in Configurations
    /\ now = 0
    /\ pc = [q \in Queries |-> "idle"]
    /\ req = [q \in Queries |-> NoRequest]
    /\ sem = 0
    /\ attempt = [q \in Queries |-> 0]
    /\ held = [q \in Queries |-> None]
    /\ target = [q \in Queries |-> NoUpstream]
    /\ upreply = [q \in Queries |-> NoMsg]
    /\ response = [q \in Queries |-> NoResponse]
    /\ source = [q \in Queries |-> ""]
    /\ Cache = EmptyCache
    /\ HostedCache = IF config.ZoneFiles THEN CacheAdd(EmptyCache, ZoneResponse)
                     ELSE EmptyCache
    /\ upstreams = [i \in 1..Len(config.Upstreams) |-> NewUpstream(config.Upstreams[i])]
    /\ poolCache = [a \in Addresses |-> <<>>]
    /\ conns = <<>>
    /\ written = [q \in Queries |-> <<>>]
    /\ logged = [q \in Queries |-> <<>>]
    /\ metrics = InitMetrics
    /\ trace = [q \in Queries |-> <<>>]

\* One step of a query: what happened, and to which ConnEntry.
Ev(event, ce) == [ev |-> event, ce |-> ce]

\* ------------------------------------------------- MutexServer.HandleDNS
\* HandleDNS that counts the query but forgets to count it as queued.
HandleDNSNotQueued(q, r) ==
    /\ pc[q] = "idle"
    /\ \A p \in Queries : p < q => pc[p] # "idle"
    /\ pc' = [pc EXCEPT ![q] = "acquire"]
    /\ req' = [req EXCEPT ![q] = r]
    /\ metrics' = [metrics EXCEPT !.total = @ + 1]
    /\ UNCHANGED <<config, now, sem, attempt, held, target, upreply, response,
                   source, Cache, HostedCache, upstreams, poolCache, conns,
                   written, logged, trace>>

\* Lines 247-257: the query is counted and queued; queries arrive in order.
HandleDNS(q, r) ==
    /\ pc[q] = "idle"
    /\ \A p \in Queries : p < q => pc[p] # "idle"
    /\ pc' = [pc EXCEPT ![q] = "acquire"]
    /\ req' = [req EXCEPT ![q] = r]
    /\ metrics' = [metrics EXCEPT !.total = @ + 1, !.queued = @ + 1]
    /\ UNCHANGED <<config, now, sem, attempt, held, target, upreply, response,
                   source, Cache, HostedCache, upstreams, poolCache, conns,
                   written, logged, trace>>

\* semAcquire that never blocks: the permit is taken whether or not one is free.
semAcquireUnbounded(q) ==
    /\ pc[q] = "acquire"
    /\ sem' = sem + 1
    /\ pc' = [pc EXCEPT ![q] = "spawned"]
    /\ UNCHANGED <<config, now, req, attempt, held, target, upreply, response,
                   source, Cache, HostedCache, upstreams, poolCache, conns,
                   written, logged, metrics, trace>>

\* Line 260: s.sem.Acquire(ctx, 1) blocks until a permit is free; line 272
\* spawns the worker.
semAcquire(q) ==
    /\ pc[q] = "acquire"
    /\ sem < Capacity
    /\ sem' = sem + 1
    /\ pc' = [pc EXCEPT ![q] = "spawned"]
    /\ UNCHANGED <<config, now, req, attempt, held, target, upreply, response,
                   source, Cache, HostedCache, upstreams, poolCache, conns,
                   written, logged, metrics, trace>>

\* -------------------------------------------- MutexServer.RetrieveRecords
\* lookupCacheHit without its return: the hit is counted and the query goes
\* on to the upstreams.
lookupCacheHitFallingThrough(q, cached) ==
    /\ metrics' = [metrics EXCEPT !.queued = @ - 1, !.cacheHits = @ + 1,
                                  !.recursiveQueries = @ + 1]
    /\ pc' = [pc EXCEPT ![q] = "getconn"]
    /\ trace' = [trace EXCEPT ![q] = Append(@, Ev("cachehit", None))]
    /\ UNCHANGED <<response, source>>

\* Lines 219-223: a hit in the lookup cache returns it with source "cache".
lookupCacheHit(q, cached) ==
    /\ metrics' = [metrics EXCEPT !.queued = @ - 1, !.cacheHits = @ + 1]
    /\ response' = [response EXCEPT ![q] = cached]
    /\ source' = [source EXCEPT ![q] = "cache"]
    /\ pc' = [pc EXCEPT ![q] = "reply"]
    /\ trace' = [trace EXCEPT ![q] = Append(@, Ev("cachehit", None))]

\* hostedCacheHit that counts the hit as a hit of the lookup cache as well.
hostedCacheHitCountingBoth(q, hosted) ==
    /\ metrics' = [metrics EXCEPT !.queued = @ - 1, !.hostedCacheHits = @ + 1,
                                  !.cacheHits = @ + 1]
    /\ response' = [response EXCEPT ![q] = hosted]
    /\ source' = [source EXCEPT ![q] = "cache"]
    /\ pc' = [pc EXCEPT ![q] = "reply"]
    /\ trace' = [trace EXCEPT ![q] =
          @ \o <<Ev("cachemiss", None), Ev("hostedhit", None)>>]

\* Lines 226-230: a hit in the hosted cache returns it with source "cache".
hostedCacheHit(q, hosted) ==
    /\ metrics' = [metrics EXCEPT !.queued = @ - 1, !.hostedCacheHits = @ + 1]
    /\ response' = [response EXCEPT ![q] = hosted]
    /\ source' = [source EXCEPT ![q] = "cache"]
    /\ pc' = [pc EXCEPT ![q] = "reply"]
    /\ trace' = [trace EXCEPT ![q] =
          @ \o <<Ev("cachemiss", None), Ev("hostedhit", None)>>]

\* Lines 234 and 150-162: both caches missed, RecursiveQuery begins.
bothCachesMissed(q) ==
    /\ metrics' = [metrics EXCEPT !.queued = @ - 1, !.recursiveQueries = @ + 1]
    /\ pc' = [pc EXCEPT ![q] = "getconn"]
    /\ trace' = [trace EXCEPT ![q] =
          @ \o <<Ev("cachemiss", None), Ev("hostedmiss", None)>>]
    /\ UNCHANGED <<response, source>>

\* RetrieveRecords as the older Server has it (server.go 530-560): the lock
\* of the lookup cache is taken before the lookup and kept until the
\* function returns, so the lookup waits while another worker is between its
\* own lookup and its return.
RetrieveRecordsHoldingLock(q) ==
    /\ pc[q] = "spawned"
    /\ \A p \in Queries :
          pc[p] \notin {"getconn", "dial", "exchange", "pooladd", "cacheadd"}
    /\ LET cached == CacheGet(Cache, req[q].name, req[q].qtype)
           hosted == CacheGet(HostedCache, req[q].name, req[q].qtype)
       IN IF cached.ok THEN lookupCacheHit(q, cached.response)
          ELSE IF hosted.ok THEN hostedCacheHit(q, hosted.response)
          ELSE bothCachesMissed(q)
    /\ UNCHANGED <<config, now, req, sem, attempt, held, target, upreply, Cache,
                   HostedCache, upstreams, poolCache, conns, written, logged>>

\* The worker starts (line 275: no longer queued) and RetrieveRecords looks
\* in the lookup cache, then in the hosted cache, and else asks upstream.
RetrieveRecords(q) ==
    /\ pc[q] = "spawned"
    /\ LET cached == CacheGet(Cache, req[q].name, req[q].qtype)
           hosted == CacheGet(HostedCache, req[q].name, req[q].qtype)
       IN IF cached.ok THEN lookupCacheHit(q, cached.response)
          ELSE IF hosted.ok THEN hostedCacheHit(q, hosted.response)
          ELSE bothCachesMissed(q)
    /\ UNCHANGED <<config, now, req, sem, attempt, held, target, upreply, Cache,
                   HostedCache, upstreams, poolCache, conns, written, logged>>

\* --------------------------------------------- MutexServer.RecursiveQuery
\* AfterFailedAttempt with the loop bound off by one.
AfterFailedAttemptOneMore(calls) ==
    IF calls <= config.UpstreamRetries + 1 THEN "getconn" ELSE "servfail"

\* Lines 162-195: where the loop goes once an attempt has failed; calls is
\* the number of attemptExchange calls made, the loop's i after its i++.
AfterFailedAttempt(calls) ==
    IF calls <= config.UpstreamRetries THEN "getconn" ELSE "servfail"

\* ---------------------------------------------- MutexServer.GetConnection
\* GetConnection that takes a hit for a miss: the entry the pool handed out
\* is dropped and a connection to its upstream is dialed.
GetConnectionDialingOnHit(q) ==
    /\ pc[q] = "getconn"
    /\ attempt' = [attempt EXCEPT ![q] = @ + 1]
    /\ LET got == PoolGet
       IN IF got.err = "" /\ got.upstream # NoUpstream
          THEN /\ target' = [target EXCEPT ![q] = got.upstream]
               /\ pc' = [pc EXCEPT ![q] = "dial"]
               /\ trace' = [trace EXCEPT ![q] = Append(@, Ev("poolmiss", None))]
               /\ UNCHANGED <<held, poolCache, metrics>>
          ELSE IF got.err # ""
          THEN /\ pc' = [pc EXCEPT ![q] = AfterFailedAttempt(attempt[q] + 1)]
               /\ trace' = [trace EXCEPT ![q] = Append(@, Ev("poolerror", None))]
               /\ UNCHANGED <<held, target, poolCache, metrics>>
          ELSE /\ poolCache' = got.cache
               /\ target' = [target EXCEPT ![q] =
                     upstreams[UpstreamIndex(conns[got.ce].address)]]
               /\ pc' = [pc EXCEPT ![q] = "dial"]
               /\ trace' = [trace EXCEPT ![q] = Append(@, Ev("poolhit", got.ce))]
               /\ UNCHANGED <<held, metrics>>
    /\ UNCHANGED <<config, now, req, sem, upreply, response, source, Cache,
                   HostedCache, upstreams, conns, written, logged>>

\* Lines 103 and 63-96: the loop calls attemptExchange, which asks the pool.
GetConnection(q) ==
    /\ pc[q] = "getconn"
    /\ attempt' = [attempt EXCEPT ![q] = @ + 1]
    /\ LET got == PoolGet
       IN IF got.err = "" /\ got.upstream # NoUpstream
          THEN \* cache miss, no error: the caller dials
               /\ target' = [target EXCEPT ![q] = got.upstream]
               /\ pc' = [pc EXCEPT ![q] = "dial"]
               /\ trace' = [trace EXCEPT ![q] = Append(@, Ev("poolmiss", None))]
               /\ UNCHANGED <<held, poolCache, metrics>>
          ELSE IF got.err # ""
          THEN \* error: the attempt fails
               /\ pc' = [pc EXCEPT ![q] = AfterFailedAttempt(attempt[q] + 1)]
               /\ trace' = [trace EXCEPT ![q] = Append(@, Ev("poolerror", None))]
               /\ UNCHANGED <<held, target, poolCache, metrics>>
          ELSE \* cache hit
               /\ held' = [held EXCEPT ![q] = got.ce]
               /\ poolCache' = got.cache
               /\ metrics' = [metrics EXCEPT
                     !.reusedConnections[conns[got.ce].address] = @ + 1]
               /\ pc' = [pc EXCEPT ![q] = "exchange"]
               /\ trace' = [trace EXCEPT ![q] = Append(@, Ev("poolhit", got.ce))]
               /\ UNCHANGED target
    /\ UNCHANGED <<config, now, req, sem, upreply, response, source, Cache,
                   HostedCache, upstreams, conns, written, logged>>

\* Lines 75-77, 35-54 and 84-95: connPool.NewConnection dials the upstream.
newConnection(q, dialed) ==
    /\ pc[q] = "dial"
    /\ LET a == target[q].address
           ce == Len(conns) + 1
       IN IF dialed
          THEN /\ conns' = Append(conns, NewConnEntry(a))
               /\ held' = [held EXCEPT ![q] = ce]
               /\ metrics' = [metrics EXCEPT
                     !.newConnectionAttempts[a] = @ + 1,
                     !.reusedConnections[a] = @ + 1]
               /\ pc' = [pc EXCEPT ![q] = "exchange"]
               /\ trace' = [trace EXCEPT ![q] = Append(@, Ev("dial", ce))]
          ELSE /\ metrics' = [metrics EXCEPT !.newConnectionAttempts[a] = @ + 1]
               /\ pc' = [pc EXCEPT ![q] = AfterFailedAttempt(attempt[q])]
               /\ trace' = [trace EXCEPT ![q] = Append(@, Ev("dialfail", None))]
               /\ UNCHANGED <<conns, held>>
    /\ target' = [target EXCEPT ![q] = NoUpstream]
    /\ UNCHANGED <<config, now, req, sem, attempt, upreply, response, source,
                   Cache, HostedCache, upstreams, poolCache, written, logged>>

\* -------------------------------------------- MutexServer.attemptExchange
\* exchangeSucceeded that hands the entry back to the pool itself, although
\* RecursiveQuery does so too.
exchangeSucceededPooling(q, rep) ==
    /\ pc[q] = "exchange"
    /\ conns' = [conns EXCEPT ![held[q]] = AddExchange(@, rep.rtt)]
    /\ poolCache' = PoolAdd(held[q]).cache
    /\ upreply' = [upreply EXCEPT ![q] = UpstreamMsg(rep, req[q].name, req[q].qtype)]
    /\ pc' = [pc EXCEPT ![q] = "pooladd"]
    /\ trace' = [trace EXCEPT ![q] = Append(@, Ev("exchange", held[q]))]
    /\ UNCHANGED <<config, now, req, sem, attempt, held, target, response,
                   source, Cache, HostedCache, upstreams, written, logged,
                   metrics>>

\* exchangeSucceeded in a loop that lacks its break: while attempts are left
\* the loop runs on after a success.
exchangeSucceededRetrying(q, rep) ==
    /\ pc[q] = "exchange"
    /\ conns' = [conns EXCEPT ![held[q]] = AddExchange(@, rep.rtt)]
    /\ upreply' = [upreply EXCEPT ![q] = UpstreamMsg(rep, req[q].name, req[q].qtype)]
    /\ pc' = [pc EXCEPT ![q] = IF attempt[q] <= config.UpstreamRetries
                                THEN "getconn" ELSE "pooladd"]
    /\ trace' = [trace EXCEPT ![q] = Append(@, Ev("exchange", held[q]))]
    /\ UNCHANGED <<config, now, req, sem, attempt, held, target, response,
                   source, Cache, HostedCache, upstreams, poolCache, written,
                   logged, metrics>>

\* Lines 120-122 and 146: the exchange returned a reply.
exchangeSucceeded(q, rep) ==
    /\ pc[q] = "exchange"
    /\ conns' = [conns EXCEPT ![held[q]] = AddExchange(@, rep.rtt)]
    /\ upreply' = [upreply EXCEPT ![q] = UpstreamMsg(rep, req[q].name, req[q].qtype)]
    /\ pc' = [pc EXCEPT ![q] = "pooladd"]
    /\ trace' = [trace EXCEPT ![q] = Append(@, Ev("exchange", held[q]))]
    /\ UNCHANGED <<config, now, req, sem, attempt, held, target, response,
                   source, Cache, HostedCache, upstreams, poolCache, written,
                   logged, metrics>>

\* exchangeFailed that puts the entry back into the pool instead of closing it.
exchangeFailedRepooling(q, rtt) ==
    /\ pc[q] = "exchange"
    /\ LET ce == held[q]
           a == conns[ce].address
       IN /\ conns' = [conns EXCEPT ![ce] = AddError(AddExchange(@, rtt))]
          /\ poolCache' = [poolCache EXCEPT ![a] = Append(@, ce)]
          /\ metrics' = [metrics EXCEPT !.upstreamErrors[a] = @ + 1]
          /\ trace' = [trace EXCEPT ![q] = Append(@, Ev("exchangefail", ce))]
    /\ held' = [held EXCEPT ![q] = None]
    /\ pc' = [pc EXCEPT ![q] = AfterFailedAttempt(attempt[q])]
    /\ UNCHANGED <<config, now, req, sem, attempt, target, upreply, response,
                   source, Cache, HostedCache, upstreams, written, logged>>

\* Lines 120-145: the exchange returned an error.
exchangeFailed(q, rtt) ==
    /\ pc[q] = "exchange"
    /\ LET ce == held[q]
           a == conns[ce].address
       IN /\ conns' = [conns EXCEPT
                ![ce] = [AddError(AddExchange(@, rtt)) EXCEPT !.open = FALSE]]
          /\ upstreams' = PoolCloseUpstreams(a)
          /\ metrics' = [metrics EXCEPT !.upstreamErrors[a] = @ + 1]
          /\ trace' = [trace EXCEPT ![q] = Append(@, Ev("exchangefail", ce))]
    /\ held' = [held EXCEPT ![q] = None]
    /\ pc' = [pc EXCEPT ![q] = AfterFailedAttempt(attempt[q])]
    /\ UNCHANGED <<config, now, req, sem, attempt, target, upreply, response,
                   source, Cache, HostedCache, poolCache, written, logged>>

\* Lines 197-211 of RecursiveQuery: the entry goes back to the pool, an error
\* of Add is logged and disregarded, and the Response is built.
RecursiveQueryAdd(q) ==
    /\ pc[q] = "pooladd"
    /\ LET ce == held[q]
           added == PoolAdd(ce)
       IN /\ poolCache' = added.cache
          /\ upstreams' = added.upstreams
          /\ trace' = [trace EXCEPT ![q] =
                Append(@, Ev(IF added.err = "" THEN "add" ELSE "addrejected", ce))]
          /\ source' = [source EXCEPT ![q] = conns[ce].address]
    /\ response' = [response EXCEPT
          ![q] = processResults(upreply[q], req[q].name, req[q].qtype)]
    /\ held' = [held EXCEPT ![q] = None]
    /\ pc' = [pc EXCEPT ![q] = "cacheadd"]
    /\ UNCHANGED <<config, now, req, sem, attempt, target, upreply, Cache,
                   HostedCache, conns, written, logged, metrics>>

\* RetrieveRecords that returns the result without caching it.
RetrieveRecordsNoAdd(q) ==
    /\ pc[q] = "cacheadd"
    /\ pc' = [pc EXCEPT ![q] = "reply"]
    /\ UNCHANGED <<config, now, req, sem, attempt, held, target, upreply,
                   response, source, Cache, HostedCache, upstreams, poolCache,
                   conns, written, logged, metrics, trace>>

\* Lines 238-239 of RetrieveRecords: the result is cached.
RetrieveRecordsAdd(q) ==
    /\ pc[q] = "cacheadd"
    /\ Cache' = CacheAdd(Cache, response[q])
    /\ pc' = [pc EXCEPT ![q] = "reply"]
    /\ trace' = [trace EXCEPT ![q] = Append(@, Ev("insert", None))]
    /\ UNCHANGED <<config, now, req, sem, attempt, held, target, upreply,
                   response, source, HostedCache, upstreams, poolCache, conns,
                   written, logged, metrics>>

\* Lines 293-298 of HandleDNS: the reply is written and logged; then the
\* deferred s.sem.Release(1) of line 273 runs.
writeReply(q) ==
    /\ pc[q] = "reply"
    /\ LET reply == SetRcode(response[q].entry, req[q], response[q].entry.rcode)
       IN /\ written' = [written EXCEPT ![q] = Append(@, reply)]
          /\ logged' = [logged EXCEPT ![q] = @ \o logQuery(source[q], reply)]
    /\ sem' = sem - 1
    /\ pc' = [pc EXCEPT ![q] = "done"]
    /\ trace' = [trace EXCEPT ![q] = Append(@, Ev("write", None))]
    /\ UNCHANGED <<config, now, req, attempt, held, target, upreply, response,
                   source, Cache, HostedCache, upstreams, poolCache, conns,
                   metrics>>

\* sendServfail on a path that returns without releasing the permit.
sendServfailKeepingPermit(q) ==
    /\ pc[q] = "servfail"
    /\ metrics' = [metrics EXCEPT !.localServfails = @ + 1]
    /\ LET m == ServfailMsg(req[q])
       IN /\ written' = [written EXCEPT ![q] = Append(@, m)]
          /\ logged' = [logged EXCEPT ![q] = @ \o logQuery("servfail", m)]
    /\ pc' = [pc EXCEPT ![q] = "done"]
    /\ trace' = [trace EXCEPT ![q] = Append(@, Ev("servfail", None))]
    /\ UNCHANGED <<config, now, req, sem, attempt, held, target, upreply,
                   response, source, Cache, HostedCache, upstreams, poolCache,
                   conns>>

\* sendServfail followed by the reply of the success path: the worker does
\* not return after it has sent the SERVFAIL.
sendServfailFallingThrough(q) ==
    /\ pc[q] = "servfail"
    /\ metrics' = [metrics EXCEPT !.localServfails = @ + 1]
    /\ LET m == ServfailMsg(req[q])
           reply == SetRcode(response[q].entry, req[q], response[q].entry.rcode)
       IN /\ written' = [written EXCEPT ![q] = Append(Append(@, m), reply)]
          /\ logged' = [logged EXCEPT ![q] =
                          @ \o logQuery("servfail", m) \o logQuery(source[q], reply)]
    /\ sem' = sem - 1
    /\ pc' = [pc EXCEPT ![q] = "done"]
    /\ trace' = [trace EXCEPT ![q] = Append(@, Ev("servfail", None))]
    /\ UNCHANGED <<config, now, req, attempt, held, target, upreply, response,
                   source, Cache, HostedCache, upstreams, poolCache, conns>>

\* sendServfail that also caches the failure as an answer to the question.
sendServfailCaching(q) ==
    /\ pc[q] = "servfail"
    /\ metrics' = [metrics EXCEPT !.localServfails = @ + 1]
    /\ LET m == ServfailMsg(req[q])
       IN /\ written' = [written EXCEPT ![q] = Append(@, m)]
          /\ logged' = [logged EXCEPT ![q] = @ \o logQuery("servfail", m)]
          /\ Cache' = CacheAdd(Cache, processResults(m, req[q].name, req[q].qtype))
    /\ sem' = sem - 1
    /\ pc' = [pc EXCEPT ![q] = "done"]
    /\ trace' = [trace EXCEPT ![q] = Append(@, Ev("servfail", None))]
    /\ UNCHANGED <<config, now, req, attempt, held, target, upreply, response,
                   source, HostedCache, upstreams, poolCache, conns>>

\* Lines 277-291 of HandleDNS and sendServfail (server.go 68-74); then the
\* deferred s.sem.Release(1) of line 273 runs.
sendServfail(q) ==
    /\ pc[q] = "servfail"
    /\ metrics' = [metrics EXCEPT !.localServfails = @ + 1]
    /\ LET m == ServfailMsg(req[q])
       IN /\ written' = [written EXCEPT ![q] = Append(@, m)]
          /\ logged' = [logged EXCEPT ![q] = @ \o logQuery("servfail", m)]
    /\ sem' = sem - 1
    /\ pc' = [pc EXCEPT ![q] = "done"]
    /\ trace' = [trace EXCEPT ![q] = Append(@, Ev("servfail", None))]
    /\ UNCHANGED <<config, now, req, attempt, held, target, upreply, response,
                   source, Cache, HostedCache, upstreams, poolCache, conns>>

\* ------------------------------------------------------------ environment
\* Time passes.
Tick ==
    /\ now < MaxTime
    /\ now' = now + 1
    /\ UNCHANGED <<config, pc, req, sem, attempt, held, target, upreply,
                   response, source, Cache, HostedCache, upstreams, poolCache,
                   conns, written, logged, metrics, trace>>

\* The cleaning crew of the lookup cache (NewMutexServer line 357) sweeps.
Reaper ==
    /\ CacheSweep(Cache) # Cache
    /\ Cache' = CacheSweep(Cache)
    /\ UNCHANGED <<config, now, pc, req, sem, attempt, held, target, upreply,
                   response, source, HostedCache, upstreams, poolCache, conns,
                   written, logged, metrics, trace>>

Next ==
    \/ \E q \in Queries, r \in Requests : HandleDNS(q, r)
    \/ \E q \in Queries : semAcquire(q)
    \/ \E q \in Queries : RetrieveRecords(q)
    \/ \E q \in Queries : GetConnection(q)
    \/ \E q \in Queries, dialed \in BOOLEAN : newConnection(q, dialed)
    \/ \E q \in Queries, rep \in UpstreamReplies : exchangeSucceeded(q, rep)
    \/ \E q \in Queries, rtt \in FailRtts : exchangeFailed(q, rtt)
    \/ \E q \in Queries : RecursiveQueryAdd(q)
    \/ \E q \in Queries : RetrieveRecordsAdd(q)
    \/ \E q \in Queries : writeReply(q)
    \/ \E q \in Queries : sendServfail(q)
    \/ Tick
    \/ Reaper

Spec == Init /\ [][Next]_vars

\* ====================================================================
\* Properties
\* ====================================================================
\* The worker of q holds a permit: acquired and not yet released.
Holding(q) ==
    pc[q] \in {"spawned", "getconn", "dial", "exchange", "pooladd", "cacheadd",
               "reply", "servfail"}

Holders == {q \in Queries : Holding(q)}

\* The events of q's trace, and how many of them are among evs.
Events(q) == {trace[q][i].ev : i \in 1..Len(trace[q])}

Count(q, evs) == Cardinality({i \in 1..Len(trace[q]) : trace[q][i].ev \in evs})

FailedAttemptEvents == {"poolerror", "dialfail", "exchangefail"}

UpstreamEvents ==
    {"poolmiss", "poolhit", "poolerror", "dial", "dialfail", "exchange",
     "exchangefail", "add", "addrejected"}

\* C1: the queries that hold a permit are never more than the capacity of the
\* semaphore (concurrent_queries, or the default when it is 0), and a query
\* that waits for a permit has done no cache lookup and no upstream work.
C1_PermitsBounded ==
    /\ Cardinality(Holders) <= Capacity
    /\ sem = Cardinality(Holders)
    /\ \A q \in Queries : pc[q] \in {"idle", "acquire"} => trace[q] = <<>>

\* C1 witness: every permit is held, one worker has worked, one query waits.
C1_Witness ==
    /\ sem = Capacity
    /\ \E q \in Queries : pc[q] = "acquire"
    /\ \E p \in Queries : Holding(p) /\ trace[p] # <<>>

\* C2: a query whose attempts all fail calls attemptExchange at most
\* upstream_retries + 1 times; when that many have failed it makes no further
\* attempt and the client gets SERVFAIL.
C2_RetriesBounded ==
    \A q \in Queries :
        /\ attempt[q] <= config.UpstreamRetries + 1
        /\ Count(q, FailedAttemptEvents) <= attempt[q]
        /\ Count(q, FailedAttemptEvents) = config.UpstreamRetries + 1
              => /\ pc[q] \in {"servfail", "done"}
                 /\ attempt[q] = config.UpstreamRetries + 1
                 /\ pc[q] = "done" => /\ Len(written[q]) = 1
                                      /\ written[q][1].rcode = RcodeServerFailure

\* C2 witness: with a retry configured, a query has failed every attempt and
\* its client has the SERVFAIL.
C2_Witness ==
    \E q \in Queries :
        /\ config.UpstreamRetries >= 1
        /\ pc[q] = "done"
        /\ Count(q, FailedAttemptEvents) = config.UpstreamRetries + 1
        /\ "exchangefail" \in Events(q)
        /\ written[q][1].rcode = RcodeServerFailure

\* The idle entries of the pool, over all buckets.
Pooled == UNION {{poolCache[a][i] : i \in 1..Len(poolCache[a])} : a \in Addresses}

\* How many times ce is in the pool.
PooledCopies(ce) ==
    Cardinality(UNION {{<<a, i>> : i \in {j \in 1..Len(poolCache[a]) :
                                            poolCache[a][j] = ce}} : a \in Addresses})

\* The ConnEntry the step at position i of q's trace acted on is held by q
\* from the step that handed it out ("poolhit", "dial") to the step that gave
\* it back or closed it ("add", "addrejected", "exchangefail").
HandOutEvents == {"poolhit", "dial"}
HandBackEvents == {"add", "addrejected", "exchangefail"}

\* C3: a ConnEntry is held by at most one worker at a time: while a worker
\* holds it, no other worker holds it and it is not idle in the pool, so no
\* other worker can obtain it or run an exchange on it; only its holder runs
\* an exchange on it.
C3_ExclusiveHold ==
    /\ \A q \in Queries : held[q] # None =>
          /\ \A p \in Queries : p # q => held[p] # held[q]
          /\ held[q] \notin Pooled
          /\ conns[held[q]].open
    /\ \A ce \in Pooled : PooledCopies(ce) = 1
    /\ \A q \in Queries : pc[q] \in {"exchange", "pooladd"} => held[q] # None

\* C3 witness: two workers hold a ConnEntry each at the same time, one of
\* them in its exchange, after an entry was handed out by the pool.
C3_Witness ==
    \E q, p \in Queries :
        /\ q # p
        /\ pc[q] = "exchange" /\ held[q] # None
        /\ held[p] # None
        /\ conns[held[q]].address = conns[held[p]].address

\* C4: the idle entries the pool holds for an upstream address are never more
\* than max_per_host.
C4_PoolBounded ==
    \A a \in Addresses : Len(poolCache[a]) <= MaxPerHost

\* C4 witness: a bucket is full and a worker's add to it was rejected.
C4_Witness ==
    \E q \in Queries, a \in Addresses :
        /\ Len(poolCache[a]) = MaxPerHost
        /\ \E i \in 1..Len(trace[q]) :
              /\ trace[q][i].ev = "addrejected"
              /\ conns[trace[q][i].ce].address = a

\* C5: when RetrieveRecords fails, the one reply written is a SERVFAIL with
\* the id and the question of the request, never an NXDOMAIN, and
\* local_servfails has been incremented once for each such query.
C5_ServfailOnFailure ==
    /\ \A q \in Queries : "servfail" \in Events(q) =>
          /\ Count(q, FailedAttemptEvents) = config.UpstreamRetries + 1
          /\ written[q] = << [id |-> req[q].id, qname |-> req[q].name,
                              qtype |-> req[q].qtype, rcode |-> RcodeServerFailure,
                              ra |-> FALSE, aa |-> FALSE, answers |-> <<>>] >>
          /\ written[q][1].rcode # RcodeNameError
    /\ \A q \in Queries : pc[q] = "done" /\ "servfail" \notin Events(q) =>
          Count(q, FailedAttemptEvents) <= config.UpstreamRetries
    /\ metrics.localServfails =
          Cardinality({q \in Queries : "servfail" \in Events(q)})

\* C5 witness: a query failed and its client has the SERVFAIL.
C5_Witness ==
    \E q \in Queries :
        /\ pc[q] = "done"
        /\ "servfail" \in Events(q)
        /\ metrics.localServfails >= 1
        /\ written[q][1].rcode = RcodeServerFailure

\* The steps of the worker of q, once it holds its permit.
Worker(q) ==
    \/ RetrieveRecords(q)
    \/ GetConnection(q)
    \/ \E dialed \in BOOLEAN : newConnection(q, dialed)
    \/ \E rep \in UpstreamReplies : exchangeSucceeded(q, rep)
    \/ \E rtt \in FailRtts : exchangeFailed(q, rtt)
    \/ RecursiveQueryAdd(q)
    \/ RetrieveRecordsAdd(q)
    \/ writeReply(q)
    \/ sendServfail(q)

\* The scheduler runs every spawned worker, and every dial and exchange
\* returns (with a reply or an error).
FairSpec == Spec /\ \A q \in Queries : WF_vars(Worker(q))

\* C6: a worker that holds a permit eventually releases it, on the reply path
\* and on the SERVFAIL path alike, and when no query is in flight every
\* permit is available again.
C6_PermitsReleased ==
    /\ \A q \in Queries : [](Holding(q) => <>(pc[q] = "done"))
    /\ []((\A q \in Queries : pc[q] \in {"idle", "acquire", "done"}) => sem = 0)

\* C6 witness: one query ended with a reply, another with SERVFAIL, and no
\* permit is held.
C6_Witness ==
    \E q, p \in Queries :
        /\ pc[q] = "done" /\ "write" \in Events(q)
        /\ pc[p] = "done" /\ "servfail" \in Events(p)
        /\ sem = 0

\* Position of the first event of q's trace that is among evs (0: none).
First(q, evs) ==
    IF \E i \in 1..Len(trace[q]) : trace[q][i].ev \in evs
    THEN CHOOSE i \in 1..Len(trace[q]) :
            /\ trace[q][i].ev \in evs
            /\ \A j \in 1..(i - 1) : trace[q][j].ev \notin evs
    ELSE 0

\* C7: within one query the lookup-cache lookup and then the hosted-cache
\* lookup come before its first pool get, dial or exchange, and on a
\* successful recursive query the insert into the lookup cache comes before
\* the reply is written.
C7_LookupThenUpstreamThenInsertThenReply ==
    \A q \in Queries :
        /\ UpstreamEvents \cap Events(q) # {} =>
              /\ Len(trace[q]) >= 3
              /\ trace[q][1].ev = "cachemiss"
              /\ trace[q][2].ev = "hostedmiss"
              /\ First(q, UpstreamEvents) = 3
        /\ ("write" \in Events(q) /\ "exchange" \in Events(q)) =>
              /\ First(q, {"exchange"}) < First(q, {"insert"})
              /\ First(q, {"insert"}) > 0
              /\ First(q, {"insert"}) < First(q, {"write"})
              /\ Count(q, {"insert"}) = 1

\* C7 witness: a recursive query succeeded and its reply is written.
C7_Witness ==
    \E q \in Queries :
        /\ pc[q] = "done"
        /\ {"cachemiss", "hostedmiss", "exchange", "insert", "write"} \subseteq Events(q)
        /\ Cache[<<req[q].name, req[q].qtype>>] # NoResponse

\* The steps of all queries that acted on ConnEntry ce, as <<q, i>>.
StepsOn(ce) ==
    UNION {{<<q, i>> : i \in {j \in 1..Len(trace[q]) : trace[q][j].ce = ce}} :
             q \in Queries}

\* The failed exchanges on connections to address a, over all queries.
FailedExchanges(a) ==
    UNION {{<<q, i>> : i \in {j \in 1..Len(trace[q]) :
                                 /\ trace[q][j].ev = "exchangefail"
                                 /\ conns[trace[q][j].ce].address = a}} :
             q \in Queries}

\* C8: a ConnEntry whose exchange returned an error is closed, is not idle in
\* the pool and is held by nobody, the failed exchange is the last step any
\* worker made on it, and upstream_errors of its address counts one per
\* failed exchange; this holds for pooled and for freshly dialed entries.
C8_FailedEntryClosed ==
    /\ \A ce \in 1..Len(conns) : conns[ce].errors > 0 =>
          /\ ~conns[ce].open
          /\ conns[ce].errors = 1
          /\ ce \notin Pooled
          /\ \A q \in Queries : held[q] # ce
          /\ \E q \in Queries :
                /\ "exchangefail" \in {trace[q][i].ev : i \in {j \in 1..Len(trace[q]) :
                                                              trace[q][j].ce = ce}}
                /\ \A i \in 1..Len(trace[q]) :
                      (trace[q][i].ce = ce /\ trace[q][i].ev # "exchangefail") =>
                         \E k \in (i + 1)..Len(trace[q]) :
                            trace[q][k].ce = ce /\ trace[q][k].ev = "exchangefail"
          /\ Cardinality({s \in StepsOn(ce) : trace[s[1]][s[2]].ev = "exchangefail"}) = 1
    /\ \A q \in Queries : \A i \in 1..Len(trace[q]) :
          trace[q][i].ev = "exchangefail" => conns[trace[q][i].ce].errors > 0
    /\ \A a \in Addresses :
          metrics.upstreamErrors[a] = Cardinality(FailedExchanges(a))

\* C8 witness: an exchange failed on an entry that came from the pool, and
\* another on an entry that was freshly dialed.
C8_Witness ==
    \E q, p \in Queries :
        \E i \in 1..Len(trace[q]), j \in 1..Len(trace[p]) :
            /\ trace[q][i].ev = "poolhit"
            /\ i < Len(trace[q])
            /\ trace[q][i + 1].ev = "exchangefail"
            /\ trace[q][i + 1].ce = trace[q][i].ce
            /\ trace[p][j].ev = "dial"
            /\ j < Len(trace[p])
            /\ trace[p][j + 1].ev = "exchangefail"
            /\ metrics.upstreamErrors[conns[trace[q][i].ce].address] >= 1

\* C9 (as claimed): after a successful exchange the entry is offered to the
\* pool exactly once; an entry the pool rejected because the bucket is full
\* has been closed, the bucket is as it was, and the query still succeeds.
C9_RejectedEntryClosed ==
    \A q \in Queries :
        /\ ("exchange" \in Events(q) /\ pc[q] \in {"cacheadd", "reply", "done"}) =>
              /\ Count(q, {"add", "addrejected"}) = 1
              /\ "servfail" \notin Events(q)
        /\ \A i \in 1..Len(trace[q]) :
              trace[q][i].ev = "addrejected" =>
                 /\ ~conns[trace[q][i].ce].open
                 /\ trace[q][i].ce \notin Pooled

\* The lookup cache has a live entry for the question (name, qtype).
LiveEntry(name, qtype) ==
    LET k == <<ToLower(name), qtype>>
    IN /\ k \in Keys
       /\ Cache[k] # NoResponse
       /\ now < Cache[k].ctime + Cache[k].ttl

\* The worker of q makes its lookups in this step.
LooksUp(q) == pc[q] = "spawned" /\ pc'[q] # "spawned"

\* C10: a query that finds a live entry for its (name, qtype) in the lookup
\* cache is answered from that entry with source "cache": cache_hits goes up
\* by exactly 1, hosted_cache_hits and recursive_queries stay, and the query
\* makes no pool get, no dial and no exchange.
C10_CacheHitAnswered ==
    /\ [][\A q \in Queries :
            (LooksUp(q) /\ LiveEntry(req[q].name, req[q].qtype)) =>
               /\ response'[q] = Cache[<<ToLower(req[q].name), req[q].qtype>>]
               /\ source'[q] = "cache"
               /\ pc'[q] = "reply"
               /\ trace'[q] = <<Ev("cachehit", None)>>
               /\ metrics'.cacheHits = metrics.cacheHits + 1
               /\ metrics'.hostedCacheHits = metrics.hostedCacheHits
               /\ metrics'.recursiveQueries = metrics.recursiveQueries
               /\ UNCHANGED <<attempt, held, target, poolCache, conns, upstreams,
                              Cache, HostedCache>>]_vars
    /\ [](\A q \in Queries : "cachehit" \in Events(q) =>
            /\ Events(q) \subseteq {"cachehit", "write"}
            /\ attempt[q] = 0 /\ held[q] = None
            /\ source[q] = "cache"
            /\ pc[q] = "done" =>
                  /\ Len(written[q]) = 1
                  /\ written[q][1].answers = response[q].entry.answers
                  /\ written[q][1].rcode = response[q].entry.rcode)
    /\ [](/\ metrics.cacheHits =
               Cardinality({q \in Queries : "cachehit" \in Events(q)})
          /\ metrics.hostedCacheHits =
               Cardinality({q \in Queries : "hostedhit" \in Events(q)})
          /\ metrics.recursiveQueries =
               Cardinality({q \in Queries : "hostedmiss" \in Events(q)}))

\* C10 witness: a query was answered from the lookup cache, which another
\* query had filled from an upstream.
C10_Witness ==
    \E q, p \in Queries :
        /\ pc[q] = "done"
        /\ trace[q] = <<Ev("cachehit", None), Ev("write", None)>>
        /\ "insert" \in Events(p)
        /\ response[q].entry.answers # <<>>
        /\ metrics.cacheHits = 1

\* Every failed exchange of every query, as (query, step).
AllFailedExchanges == UNION {FailedExchanges(a) : a \in Addresses}

\* upstream_errors over all addresses.
TotalUpstreamErrors ==
    metrics.upstreamErrors["u1:853"] + metrics.upstreamErrors["u2:853"]

\* C11: RecursiveQuery stops at the first successful attempt: a query whose
\* first k attempts failed and whose next succeeded (k <= upstream_retries)
\* has made exactly k + 1 attemptExchange calls and one successful exchange,
\* gets no SERVFAIL, and makes exactly one insert into the lookup cache;
\* upstream_errors counts one per failed exchange.
C11_StopsAtFirstSuccess ==
    /\ \A q \in Queries : "exchange" \in Events(q) =>
          /\ Count(q, {"exchange"}) = 1
          /\ Count(q, FailedAttemptEvents) <= config.UpstreamRetries
          /\ attempt[q] = Count(q, FailedAttemptEvents) + 1
          /\ pc[q] \in {"pooladd", "cacheadd", "reply", "done"}
          /\ "servfail" \notin Events(q)
          /\ Count(q, {"insert"}) = (IF pc[q] \in {"reply", "done"} THEN 1 ELSE 0)
          /\ pc[q] = "done" => /\ Len(written[q]) = 1
                               /\ written[q][1].rcode = upreply[q].rcode
                               /\ written[q][1].rcode # RcodeServerFailure
    /\ TotalUpstreamErrors = Cardinality(AllFailedExchanges)

\* C11 witness: a query's first exchange failed, its second succeeded, and it
\* was answered after one insert.
C11_Witness ==
    \E q \in Queries :
        /\ pc[q] = "done"
        /\ attempt[q] = 2
        /\ Count(q, {"exchangefail"}) = 1
        /\ Count(q, {"exchange"}) = 1
        /\ Count(q, {"insert"}) = 1
        /\ TotalUpstreamErrors >= 1
        /\ written[q][1].rcode = RcodeSuccess

\* Every attempt of q has failed: RecursiveQuery returns its error.
AllAttemptsFailed(q) == Count(q, FailedAttemptEvents) = config.UpstreamRetries + 1

\* The ConnEntries the worker of q has had in hand.
UsedBy(q) == {trace[q][i].ce : i \in 1..Len(trace[q])} \ {None}

\* C12: a query that ends in failure (all its attempts failed) leaves the
\* lookup cache and the hosted cache as they were: it makes no insert, and
\* the steps that lead it to the SERVFAIL and send it change neither cache
\* nor the pool; no ConnEntry it used is in the pool afterwards.
C12_FailureLeavesCachesAndPool ==
    /\ [][\A q \in Queries :
            (pc'[q] # pc[q] /\ (pc[q] = "servfail" \/ pc'[q] = "servfail")) =>
               UNCHANGED <<Cache, HostedCache, poolCache>>]_vars
    /\ [](\A q \in Queries : AllAttemptsFailed(q) =>
            /\ pc[q] \in {"servfail", "done"}
            /\ Count(q, {"insert", "add", "addrejected", "exchange"}) = 0
            /\ held[q] = None
            /\ \A ce \in UsedBy(q) : ce \notin Pooled /\ ~conns[ce].open)

\* C12 witness: a query failed on an entry it took from the pool while the
\* lookup cache holds what another query inserted.
C12_Witness ==
    \E q, p \in Queries :
        /\ pc[q] = "done"
        /\ AllAttemptsFailed(q)
        /\ "poolhit" \in Events(q)
        /\ UsedBy(q) # {}
        /\ "insert" \in Events(p)
        /\ Cache # EmptyCache

\* The worker of q inserts its Response into the lookup cache in this step.
Inserts(q) == pc[q] = "cacheadd" /\ pc'[q] = "reply"

\* The entry the cache keeps for Response R: R with its ttl derived from the
\* answer RRs.
Stored(R) == [R EXCEPT !.ttl = MinTtl(R.entry.answers)]

\* C13 (as claimed): for every Response R added to the lookup cache, a get of
\* (R.key, R.qtype) made right after the add, before R's expiry, returns R
\* and true.
C13_AddThenGetReturnsIt ==
    [][\A q \in Queries :
         (Inserts(q) /\ now < response[q].ctime + MinTtl(response[q].entry.answers)) =>
            CacheGet(Cache', response[q].key, response[q].qtype) =
               [ok |-> TRUE, response |-> Stored(response[q])]]_vars

\* The key under which the lookup of q reads the caches.
LookupKey(q) == <<ToLower(req[q].name), req[q].qtype>>

\* The entry at key k of cache is resident and its expiry has passed.
Expired(cache, k) ==
    cache[k] # NoResponse /\ now >= cache[k].ctime + cache[k].ttl

\* C14: a lookup in the lookup cache made once the clock has reached
\* creation_time + ttl of the entry misses, whether or not the reaper has
\* removed the entry, and a lookup that hits returns an entry with
\* now < creation_time + ttl.
C14_ExpiredEntryMisses ==
    [][\A q \in Queries : LooksUp(q) =>
          /\ Expired(Cache, LookupKey(q)) =>
                /\ trace'[q][1] = Ev("cachemiss", None)
                /\ metrics'.cacheHits = metrics.cacheHits
                /\ source'[q] # "cache" \/ trace'[q][2] = Ev("hostedhit", None)
          /\ trace'[q][1] = Ev("cachehit", None) =>
                /\ response'[q] = Cache[LookupKey(q)]
                /\ now < response'[q].ctime + response'[q].ttl]_vars

\* C14 witness: with one permit, a query has inserted an entry of positive
\* ttl; a later query for the same key found it resident and expired and
\* went on to the upstreams.
C14_Witness ==
    \E q, p \in Queries :
        /\ config.ConcurrentQueries = 1
        /\ pc[p] = "done" /\ "insert" \in Events(p)
        /\ pc[q] = "getconn"
        /\ trace[q] = <<Ev("cachemiss", None), Ev("hostedmiss", None)>>
        /\ Cache[LookupKey(q)] # NoResponse
        /\ Cache[LookupKey(q)].ttl > 0
        /\ Expired(Cache, LookupKey(q))

\* C15 (as claimed): the entries of the hosted cache stay readable forever:
\* nothing removes an entry loaded from a zone file, and a lookup that
\* reaches the hosted cache and finds an entry resident for its key hits it,
\* also after creation_time + ttl of the entry has passed.
C15_HostedEntriesStayReadable ==
    [][/\ HostedCache' = HostedCache
       /\ \A q \in Queries :
             (/\ LooksUp(q)
              /\ trace'[q][1] = Ev("cachemiss", None)
              /\ HostedCache[LookupKey(q)] # NoResponse) =>
                /\ trace'[q] = <<Ev("cachemiss", None), Ev("hostedhit", None)>>
                /\ response'[q] = HostedCache[LookupKey(q)]]_vars

\* RecordCache.Size
CacheSize(cache) == Cardinality({k \in Keys : cache[k] # NoResponse})

\* The cleaning crew started on the lookup cache keeps sweeping.
ReaperSpec == Spec /\ WF_vars(Reaper)

\* The reaper sweeps the lookup cache in this step.
Sweeps == Cache' # Cache /\ trace' = trace

\* C16: with the reaper running on the lookup cache, a sweep removes every
\* entry whose expiry has passed and nothing else, every expired entry is
\* eventually removed, and once all queries are done and every entry left
\* has expired the cache becomes empty: its size is 0 and every get misses.
C16_ReaperEmptiesCache ==
    /\ [][Sweeps => \A k \in Keys :
                       /\ ~Expired(Cache', k)
                       /\ Cache'[k] = (IF Expired(Cache, k) THEN NoResponse
                                       ELSE Cache[k])]_vars
    /\ \A k \in Keys : Expired(Cache, k) ~> ~Expired(Cache, k)
    /\ ((\A q \in Queries : pc[q] = "done") /\
           (\A k \in Keys : Cache[k] = NoResponse \/ Expired(Cache, k)))
          ~> (/\ CacheSize(Cache) = 0
              /\ \A r \in Requests : ~CacheGet(Cache, r.name, r.qtype).ok)

\* C16 witness: two entries that queries inserted, one of positive ttl, have
\* expired and been swept: all queries are done and the cache is empty.
C16_Witness ==
    /\ \A q \in Queries : pc[q] = "done" /\ "insert" \in Events(q)
    /\ \E q \in Queries : MinTtl(response[q].entry.answers) > 0
    /\ \E q, p \in Queries : LookupKey(q) # LookupKey(p)
    /\ CacheSize(Cache) = 0

\* The worker of q calls GetConnection, and with it connPool.Get, in this step.
Gets(q) == attempt'[q] # attempt[q]

\* The last step of q after this step.
LastEvent(q) == trace'[q][Len(trace'[q])].ev

\* C17: when every bucket of the pool is empty, connPool.Get with at least
\* one upstream registered reports a miss (no ConnEntry) together with the
\* upstream of lowest weight (mean RTT), among equals the one with fewest
\* errors, among those the one registered first; an upstream never tried has
\* weight 0; Get fails with NoUpstreams only when no upstream is registered.
C17_MissPicksBestUpstream ==
    /\ [][\A q \in Queries : Gets(q) =>
            /\ (\A a \in Addresses : poolCache[a] = <<>>) =>
                  IF upstreams = <<>>
                  THEN /\ LastEvent(q) = "poolerror"
                       /\ held'[q] = None /\ target'[q] = NoUpstream
                  ELSE /\ LastEvent(q) = "poolmiss"
                       /\ held'[q] = None
                       /\ pc'[q] = "dial"
                       /\ poolCache' = poolCache
                       /\ \E i \in 1..Len(upstreams) :
                             /\ target'[q] = upstreams[i]
                             /\ \A j \in 1..Len(upstreams) :
                                   \/ upstreams[i].weight < upstreams[j].weight
                                   \/ /\ upstreams[i].weight = upstreams[j].weight
                                      /\ upstreams[i].errors < upstreams[j].errors
                                   \/ /\ upstreams[i].weight = upstreams[j].weight
                                      /\ upstreams[i].errors = upstreams[j].errors
                                      /\ i <= j
            /\ LastEvent(q) = "poolerror" => upstreams = <<>>]_vars
    /\ [](\A i \in 1..Len(upstreams) :
            (\A ce \in 1..Len(conns) : conns[ce].address # upstreams[i].address)
               => upstreams[i].weight = 0)

\* C17 witness: with every bucket empty, a worker was told to dial the second
\* upstream because the first, tried before, has the higher mean RTT.
C17_Witness ==
    \E q \in Queries :
        /\ pc[q] = "dial"
        /\ Len(upstreams) = 2
        /\ target[q] = upstreams[2]
        /\ upstreams[1].weight > upstreams[2].weight
        /\ \A a \in Addresses : poolCache[a] = <<>>

\* C18 (as claimed): every reply written to the client, from the lookup
\* cache, the hosted cache, an upstream or as SERVFAIL, carries the id and
\* the question of its request, and every reply other than a SERVFAIL has
\* recursion-available set and authoritative-answer clear.
C18_RepliesCarryIdQuestionFlags ==
    \A q \in Queries : \A i \in 1..Len(written[q]) :
        /\ written[q][i].id = req[q].id
        /\ written[q][i].qname = req[q].name
        /\ written[q][i].qtype = req[q].qtype
        /\ written[q][i].rcode # RcodeServerFailure =>
              (written[q][i].ra /\ ~written[q][i].aa)

\* Query p has inserted an answer of positive TTL to the question of q that
\* has not reached creation_time + ttl.
AnsweredBefore(q, p) ==
    /\ p # q
    /\ "insert" \in Events(p)
    /\ req[p].name = req[q].name /\ req[p].qtype = req[q].qtype
    /\ MinTtl(response[p].entry.answers) > 0
    /\ now < response[p].ctime + MinTtl(response[p].entry.answers)

\* C19 (as claimed): the Response a successful recursive query builds with
\* processResults and inserts into the lookup cache has creation_time equal
\* to the time of the call and ttl equal to the least TTL of the reply's
\* answer RRs, and a reply with answers of positive TTL is served from the
\* lookup cache to an identical query made before creation_time + ttl.
C19_BuiltResponseHasTtlAndIsServed ==
    /\ [](\A q \in Queries : pc[q] = "cacheadd" =>
            /\ response[q].entry = upreply[q]
            /\ response[q].ttl = MinTtl(upreply[q].answers))
    /\ [][\A q \in Queries :
            /\ (pc[q] = "pooladd" /\ pc'[q] = "cacheadd") => response'[q].ctime = now
            /\ (LooksUp(q) /\ \E p \in Queries : AnsweredBefore(q, p)) =>
                  trace'[q] = <<Ev("cachehit", None)>>]_vars

\* The worker of q returns from the dial in this step.
Dials(q) == pc[q] = "dial" /\ pc'[q] # "dial"

HoldersOf(ce) == {q \in Queries : held[q] = ce}

\* C21 (as claimed): no connection is leaked: every open connection is
\* either idle in the pool or held by exactly one query in flight, so when no
\* query is in flight every connection ever dialed is in the pool or closed.
C21_NoConnectionLeaked ==
    /\ \A ce \in 1..Len(conns) : conns[ce].open =>
          \/ ce \in Pooled /\ HoldersOf(ce) = {}
          \/ ce \notin Pooled /\ Cardinality(HoldersOf(ce)) = 1
    /\ (\A q \in Queries : pc[q] \in {"idle", "acquire", "done"}) =>
          \A ce \in 1..Len(conns) : ce \in Pooled \/ ~conns[ce].open

\* A dial or an upstream exchange of q is in progress.
OnTheWire(q) == pc[q] \in {"dial", "exchange"}

\* C22: no worker keeps a cache lock or the pool lock while its dial or its
\* exchange is in progress: whatever other workers have on the wire, a
\* worker can make its cache lookups, ask the pool, hand an entry back and
\* insert into the cache.
C22_NoLockAcrossExchange ==
    \A q, p \in Queries : (p # q /\ OnTheWire(q)) =>
        /\ pc[p] = "spawned" => ENABLED RetrieveRecords(p)
        /\ pc[p] = "getconn" => ENABLED GetConnection(p)
        /\ pc[p] = "pooladd" => ENABLED RecursiveQueryAdd(p)
        /\ pc[p] = "cacheadd" => ENABLED RetrieveRecordsAdd(p)

\* C22 witness: the exchange of one query is in progress while another
\* worker is about to make its cache lookups.
C22_Witness ==
    \E q, p \in Queries :
        /\ pc[q] = "exchange"
        /\ pc[p] = "spawned"

\* C23: the query path never writes to the hosted cache: no step of any
\* query changes it, whether the query hits the lookup cache, hits the
\* hosted cache, succeeds upstream or fails. A hit in the hosted cache
\* comes only after the lookup cache missed, and of the counters of hits
\* and recursive queries it increments hosted_cache_hits only.
C23_HostedCacheReadOnly ==
    /\ [][/\ HostedCache' = HostedCache
           /\ \A q \in Queries : (LooksUp(q) /\ LastEvent(q) = "hostedhit") =>
                 /\ ~CacheGet(Cache, req[q].name, req[q].qtype).ok
                 /\ trace'[q] = <<Ev("cachemiss", None), Ev("hostedhit", None)>>
                 /\ response'[q] = HostedCache[LookupKey(q)]
                 /\ source'[q] = "cache"
                 /\ metrics' = [metrics EXCEPT !.queued = @ - 1,
                                               !.hostedCacheHits = @ + 1]
                 /\ UNCHANGED <<Cache, poolCache, conns, attempt, held>>]_vars
    /\ [](\A q \in Queries : "hostedhit" \in Events(q) =>
            /\ Events(q) \subseteq {"cachemiss", "hostedhit", "write"}
            /\ attempt[q] = 0)

\* C23 witness: one query was answered from the hosted cache and another by
\* an upstream, and the hosted cache holds what the zone file put there.
C23_Witness ==
    \E q, p \in Queries :
        /\ pc[q] = "done" /\ "hostedhit" \in Events(q)
        /\ pc[p] = "done" /\ "insert" \in Events(p)
        /\ metrics.hostedCacheHits = 1
        /\ HostedCache # EmptyCache

\* C24 (as claimed): cache keys are case-insensitive: the result of a
\* successful recursive query for a name in any letter case is stored under
\* the lowercased name, and before its expiry a get for the same name in any
\* letter case hits that entry.
C24_KeysCaseInsensitive ==
    [][\A q \in Queries : Inserts(q) =>
          LET k == LookupKey(q)
          IN /\ Cache'[k] # NoResponse
             /\ Cache'[k].key = k[1]
             /\ Cache'[k].entry = response[q].entry
             /\ now < response[q].ctime + MinTtl(response[q].entry.answers) =>
                   \A r \in Requests :
                      (ToLower(r.name) = k[1] /\ r.qtype = k[2]) =>
                         CacheGet(Cache', r.name, r.qtype) =
                            [ok |-> TRUE, response |-> Cache'[k]]]_vars

\* ------------------------------------------------------------------
\* The pool after earlier queries: connections those queries dialed and
\* used are idle in the buckets, and the upstreams carry the weights and
\* errors they left; the workers of the queries at hand are in RecursiveQuery.
PoolConfig ==
    [UpstreamRetries |-> MaxRetries, ConcurrentQueries |-> 0,
     MaxConnsPerHost |-> 2, Upstreams |-> <<"u1", "u2">>, ZoneFiles |-> FALSE]

\* Three connections with one exchange each behind them.
PoolConns ==
    << AddExchange(NewConnEntry("u1:853"), 1),
       AddExchange(NewConnEntry("u1:853"), 2),
       AddExchange(NewConnEntry("u2:853"), 1) >>

PoolBuckets ==
    { [a \in Addresses |-> IF a = "u1:853" THEN b1 ELSE b2] :
        b1 \in {<<>>, <<1>>, <<2>>, <<1, 2>>, <<2, 1>>}, b2 \in {<<>>, <<3>>} }

\* An upstream whose bucket holds an entry has been given a mean RTT by an add.
PoolUpstreams(buckets) ==
    { << [NewUpstream("u1") EXCEPT !.weight = w1, !.errors = e1],
         [NewUpstream("u2") EXCEPT !.weight = w2, !.errors = e2] >> :
        w1 \in (IF buckets["u1:853"] = <<>> THEN 0..2 ELSE 1..2),
        w2 \in (IF buckets["u2:853"] = <<>> THEN 0..2 ELSE 1..2),
        e1 \in 0..1, e2 \in 0..1 }

PoolInit ==
    /\ config = PoolConfig
    /\ now = 0
    /\ pc = [q \in Queries |-> "getconn"]
    /\ req = [q \in Queries |-> [id |-> 11, name |-> "a.", qtype |-> 1]]
    /\ sem = NumQueries
    /\ attempt = [q \in Queries |-> 0]
    /\ held = [q \in Queries |-> None]
    /\ target = [q \in Queries |-> NoUpstream]
    /\ upreply = [q \in Queries |-> NoMsg]
    /\ response = [q \in Queries |-> NoResponse]
    /\ source = [q \in Queries |-> ""]
    /\ Cache = EmptyCache
    /\ HostedCache = EmptyCache
    /\ poolCache \in PoolBuckets
    /\ upstreams \in PoolUpstreams(poolCache)
    /\ conns = PoolConns
    /\ written = [q \in Queries |-> <<>>]
    /\ logged = [q \in Queries |-> <<>>]
    /\ metrics = [InitMetrics EXCEPT !.total = NumQueries,
                                     !.recursiveQueries = NumQueries]
    /\ trace = [q \in Queries |-> <<Ev("cachemiss", None), Ev("hostedmiss", None)>>]

\* The steps of RecursiveQuery on the pool.
PoolNext ==
    \/ \E q \in Queries : GetConnection(q)
    \/ \E q \in Queries, dialed \in BOOLEAN : newConnection(q, dialed)
    \/ \E q \in Queries, rep \in UpstreamReplies : exchangeSucceeded(q, rep)
    \/ \E q \in Queries, rtt \in FailRtts : exchangeFailed(q, rtt)
    \/ \E q \in Queries : RecursiveQueryAdd(q)

PoolSpec == PoolInit /\ [][PoolNext]_vars

\* The weight (mean RTT) of the upstream at address a.
WeightOf(a) == upstreams[UpstreamIndex(a)].weight

\* C25: when at least one bucket holds an entry, connPool.Get hands out an
\* idle entry, never a miss: the most recently added entry of the bucket of
\* the upstream with the lowest mean RTT among the non-empty buckets; that
\* bucket loses exactly this entry and every other bucket stays as it was.
C25_HitTakesNewestOfBestBucket ==
    [][\A q \in Queries :
         (Gets(q) /\ \E b \in Addresses : poolCache[b] # <<>>) =>
            /\ LastEvent(q) = "poolhit"
            /\ pc'[q] = "exchange"
            /\ conns' = conns
            /\ \E a \in Addresses :
                  /\ poolCache[a] # <<>>
                  /\ \A b \in Addresses :
                        poolCache[b] # <<>> => WeightOf(a) <= WeightOf(b)
                  /\ held'[q] = poolCache[a][Len(poolCache[a])]
                  /\ Len(poolCache'[a]) = Len(poolCache[a]) - 1
                  /\ poolCache' = [poolCache EXCEPT
                        ![a] = SubSeq(@, 1, Len(@) - 1)]]_vars

\* C25 witness: both buckets held entries, the first upstream two of them
\* and the lower mean RTT; a worker got the newer of the two and the other
\* stayed.
C25_Witness ==
    \E q \in Queries :
        /\ pc[q] = "exchange" /\ attempt[q] = 1
        /\ trace[q][Len(trace[q])] = Ev("poolhit", 1)
        /\ poolCache["u1:853"] = <<2>>
        /\ poolCache["u2:853"] = <<3>>
        /\ WeightOf("u1:853") < WeightOf("u2:853")
        /\ \A p \in Queries : p # q => attempt[p] = 0

\* ------------------------------------------------------------------
\* connPool.Add called with any entry a caller may own: the callers are
\* workers whose exchange has succeeded, on entries that are not in the
\* pool, among them one to an address that is no registered upstream.
AddConfig == [PoolConfig EXCEPT !.MaxConnsPerHost = 1]

AddConns == Append(PoolConns, AddExchange(NewConnEntry("u3:853"), 1))

AddBuckets == {b \in PoolBuckets : \A a \in Addresses : Len(b[a]) <= 1}

\* The entries in the buckets b.
InBuckets(b) == UNION {{b[a][i] : i \in 1..Len(b[a])} : a \in Addresses}

AddInit ==
    /\ config = AddConfig
    /\ now = 0
    /\ pc = [q \in Queries |-> "pooladd"]
    /\ req = [q \in Queries |-> [id |-> 11, name |-> "a.", qtype |-> 1]]
    /\ sem = NumQueries
    /\ attempt = [q \in Queries |-> 1]
    /\ poolCache \in AddBuckets
    /\ held \in {h \in [Queries -> 1..Len(AddConns)] :
                    /\ \A q \in Queries : h[q] \notin InBuckets(poolCache)
                    /\ \A q, p \in Queries : q # p => h[q] # h[p]}
    /\ target = [q \in Queries |-> NoUpstream]
    /\ upreply \in {[q \in Queries |-> UpstreamMsg(rep, "a.", 1)] :
                       rep \in UpstreamReplies}
    /\ response = [q \in Queries |-> NoResponse]
    /\ source = [q \in Queries |-> ""]
    /\ Cache = EmptyCache
    /\ HostedCache = EmptyCache
    /\ upstreams \in PoolUpstreams(poolCache)
    /\ conns = AddConns
    /\ written = [q \in Queries |-> <<>>]
    /\ logged = [q \in Queries |-> <<>>]
    /\ metrics = [InitMetrics EXCEPT !.total = NumQueries,
                                     !.recursiveQueries = NumQueries]
    /\ trace = [q \in Queries |->
                  <<Ev("cachemiss", None), Ev("hostedmiss", None),
                    Ev("poolmiss", None), Ev("dial", held[q]),
                    Ev("exchange", held[q])>>]

AddNext == \E q \in Queries : RecursiveQueryAdd(q)

AddSpec == AddInit /\ [][AddNext]_vars

\* The worker of q calls connPool.Add in this step.
Adds(q) == pc[q] = "pooladd" /\ pc'[q] = "cacheadd"

\* C26: connPool.Add of an entry whose address is no registered upstream
\* fails with UnknownUpstream and leaves every bucket as it was; Add to a
\* full bucket rejects the entry and neither evicts nor replaces an entry of
\* that bucket; in both cases the pool does not close the entry's
\* connection and does not keep the entry.
C26_RejectedAddLeavesPool ==
    [][\A q \in Queries : Adds(q) =>
          LET ce == held[q]
              a == conns[ce].address
              unknown == UpstreamIndex(a) = 0
              full == UpstreamIndex(a) # 0 /\ Len(poolCache[a]) >= MaxPerHost
          IN /\ unknown => /\ PoolAdd(ce).err = "UnknownUpstream"
                           /\ LastEvent(q) = "addrejected"
             /\ full => /\ PoolAdd(ce).err = "PoolFull"
                        /\ LastEvent(q) = "addrejected"
             /\ (unknown \/ full) =>
                   /\ poolCache' = poolCache
                   /\ upstreams' = upstreams
                   /\ conns' = conns /\ conns[ce].open
                   /\ ce \notin InBuckets(poolCache')
             /\ ~(unknown \/ full) =>
                   /\ LastEvent(q) = "add"
                   /\ poolCache' = [poolCache EXCEPT ![a] = Append(@, ce)]]_vars

\* C26 witness: one worker's entry was rejected as of an unknown upstream,
\* another's because its bucket was full; the bucket holds what it held and
\* both connections are open.
C26_Witness ==
    \E q, p \in Queries :
        /\ trace[q][Len(trace[q])] = Ev("addrejected", 4)
        /\ trace[p][Len(trace[p])] = Ev("addrejected", 2)
        /\ poolCache["u1:853"] = <<1>>
        /\ conns[4].open /\ conns[2].open

\* The queries that have entered HandleDNS and whose worker has not started:
\* they wait for a permit or, with the permit, for the worker to run.
Queued == {q \in Queries : pc[q] \in {"acquire", "spawned"}}

\* C27: queued_queries goes up by one when a query enters HandleDNS and down
\* by one when its worker starts, so it is never negative, counts exactly
\* the queries whose worker has not started, none whose worker is running,
\* and is 0 when no query waits.
C27_QueuedGauge ==
    /\ [][\A q \in Queries :
            /\ (pc[q] = "idle" /\ pc'[q] # "idle") =>
                  metrics'.queued = metrics.queued + 1
            /\ (pc[q] = "spawned" /\ pc'[q] # "spawned") =>
                  metrics'.queued = metrics.queued - 1
            /\ (pc[q] \notin {"idle", "spawned"} /\ pc'[q] # pc[q]) =>
                  metrics'.queued = metrics.queued]_vars
    /\ [](/\ metrics.queued >= 0
          /\ metrics.queued = Cardinality(Queued)
          /\ Queued = {} => metrics.queued = 0)

\* C27 witness: one query waits for the only permit while the worker of
\* another is running; the gauge counts the one that waits.
C27_Witness ==
    \E q, p \in Queries :
        /\ pc[q] = "acquire"
        /\ pc[p] = "exchange"
        /\ sem = Capacity
        /\ metrics.queued = 1
        /\ metrics.total = 2

\* C28 (as claimed): the query log gets one record per (question, answer)
\* pair of a successful reply, its answer source being the source
\* RetrieveRecords returned ("cache" or the upstream's address), and for a
\* SERVFAIL reply one record with answer source "servfail".
C28_QueryLogRecords ==
    \A q \in Queries : pc[q] = "done" =>
        IF "servfail" \in Events(q)
        THEN /\ Len(logged[q]) = 1
             /\ logged[q][1].answerSource = "servfail"
        ELSE /\ Len(logged[q]) = Len(written[q][1].answers)
             /\ source[q] \in {"cache"} \cup Addresses
             /\ \A j \in 1..Len(logged[q]) :
                   /\ logged[q][j].answerSource = source[q]
                   /\ logged[q][j].answer = written[q][1].answers[j]
                   /\ logged[q][j].name = req[q].name
                   /\ logged[q][j].type = req[q].qtype

\* The exchange of q returns in this step.
ExchangeReturns(q) == pc[q] = "exchange" /\ pc'[q] # "exchange"

\* C29 (as claimed): the health counters of a ConnEntry follow the outcome
\* of its exchange: a successful exchange adds 1 to exchanges and its rtt
\* to total_rtt and leaves errors alone; a failed exchange adds 1 to errors
\* and leaves exchanges and total_rtt alone; no counter is ever negative.
C29_CountersFollowOutcome ==
    /\ [][\A q \in Queries : ExchangeReturns(q) =>
            LET old == conns[held[q]]
                new == conns'[held[q]]
            IN IF LastEvent(q) = "exchange"
               THEN /\ new.exchanges = old.exchanges + 1
                    /\ \E rep \in UpstreamReplies :
                          new.totalRtt = old.totalRtt + rep.rtt
                    /\ new.errors = old.errors
               ELSE /\ new.errors = old.errors + 1
                    /\ new.exchanges = old.exchanges
                    /\ new.totalRtt = old.totalRtt]_vars
    /\ [](\A ce \in 1..Len(conns) :
             conns[ce].exchanges >= 0 /\ conns[ce].errors >= 0)

\* The worker of q holds its permit and has not finished.
Running(q) == pc[q] \notin {"idle", "acquire", "done"}

\* C30: a query that got a permit gets exactly one reply on its
\* ResponseWriter, the answer or a SERVFAIL: nothing is written before the
\* worker finishes, its worker can always take a step until it has written,
\* and when it has finished exactly one message was written, a SERVFAIL
\* exactly when RetrieveRecords failed, whatever the cache lookups and the
\* attempts of the retry loop were.
C30_ExactlyOneReply ==
    \A q \in Queries :
        /\ Len(written[q]) <= 1
        /\ pc[q] # "done" => written[q] = <<>>
        /\ Running(q) => ENABLED Worker(q)
        /\ pc[q] = "done" =>
              /\ Len(written[q]) = 1
              /\ Count(q, {"write", "servfail"}) = 1
              /\ written[q][1].rcode = RcodeServerFailure
                    <=> "servfail" \in Events(q)

\* C30 witness: two queries are finished, one answered after a failed and a
\* successful attempt, the other with a SERVFAIL, each with one reply.
C30_Witness ==
    \E q, p \in Queries :
        /\ pc[q] = "done" /\ pc[p] = "done"
        /\ "write" \in Events(q) /\ Count(q, FailedAttemptEvents) >= 1
        /\ "servfail" \in Events(p)
        /\ Len(written[q]) = 1 /\ Len(written[p]) = 1
        /\ written[q][1].rcode # RcodeServerFailure
        /\ written[p][1].rcode = RcodeServerFailure

====
